---- MODULE Spec2Model ----
(***************************************************************************)
(* Reconciliation engine of terraform-provider-nscale.                     *)
(*                                                                         *)
(* The model follows internal/nscale/helper.go (the three state watchers   *)
(* and the operation-tag helpers), the polling routine the watchers hand   *)
(* their Refresh closure to (retry.StateChangeConf.WaitForStateContext of  *)
(* terraform-plugin-sdk/v2), and the Create / Update / Delete handlers of  *)
(* internal/services/network/resource.go that submit one mutation and then *)
(* wait for it.  The remote control plane is an environment: it applies    *)
(* accepted mutations asynchronously, other writers may replace the        *)
(* resource's tags, and every read may lag, fail or be answered 404.       *)
(***************************************************************************)
EXTENDS Integers, Sequences, FiniteSets, TLC

(***************************************************************************)
(* Bounds of the model.                                                    *)
(***************************************************************************)
\* Ticks that return a snapshot, per Wait (not-found and failing ticks are
\* bounded by the code itself).
MaxFound == 3
\* PUTs by writers other than the handler under observation.
MaxOther == 1

(***************************************************************************)
(* Program constants.                                                      *)
(***************************************************************************)
\* retry.StateChangeConf leaves NotFoundChecks unset in all three watchers,
\* WaitForStateContext then uses its default.
NotFoundChecks == 20
\* defaultOperationTagMaxAge, in hours.
defaultOperationTagMaxAge == 12
StatusNotFound == 404
StatusInternalServerError == 500

\* coreapi.ResourceProvisioningStatus
StatusProvisioning == "provisioning"
StatusUnknown == "unknown"
StatusProvisioned == "provisioned"
StatusDeprovisioning == "deprovisioning"
StatusError == "error"
ProvisioningStatuses ==
    {StatusProvisioning, StatusUnknown, StatusProvisioned, StatusDeprovisioning, StatusError}

UpdateStateUpdating == "updating"
UpdateStateErrored == "errored"
UpdateStateUpdated == "updated"
DeleteStateDeleting == "deleting"
DeleteStateErrored == "errored"
DeleteStateDeleted == "deleted"

(***************************************************************************)
(* Values.                                                                 *)
(***************************************************************************)
\* A tag name is TerraformOperationTagPrefix + id (pfx) or a user key (~pfx).
\* A tag value is an RFC3339 timestamp (valid, hour at) or any other text.
OperationTagName(uuid) == [pfx |-> TRUE, id |-> uuid]
UserTagName(k) == [pfx |-> FALSE, id |-> k]
Timestamp(t) == [valid |-> TRUE, at |-> t]
Tag(name, value) == [name |-> name, value |-> value]
UserTag == Tag(UserTagName(1), [valid |-> FALSE, at |-> 0])

\* error values: an *APIError carries a status code; any other error (a
\* StatusCodeError, a transport error) is not an *APIError.
NoError == [set |-> FALSE, api |-> FALSE, code |-> 0]
APIError(code) == [set |-> TRUE, api |-> TRUE, code |-> code]
OtherError(code) == [set |-> TRUE, api |-> FALSE, code |-> code]

StatusOK == 200
\* what the control plane may answer to a GET: no answer at all (transport
\* error), 404, 500, or 200 with the snapshot when the resource exists
NoAnswer == [transport |-> TRUE, code |-> 0, snap |-> [nil |-> TRUE, status |-> "", tags |-> << >>]]
StatusAnswer(code) == [transport |-> FALSE, code |-> code, snap |-> [nil |-> TRUE, status |-> "", tags |-> << >>]]
OKAnswer(snap) == [transport |-> FALSE, code |-> StatusOK, snap |-> snap]

\* AsAPIError
AsAPIError(err) == err.set /\ err.api

IsNotFound(err) == AsAPIError(err) /\ err.code = StatusNotFound

\* a resource snapshot (*T together with its read metadata), or a nil pointer
NilSnapshot == [nil |-> TRUE, status |-> "", tags |-> << >>]
Snapshot(status, tags) == [nil |-> FALSE, status |-> status, tags |-> tags]
\* the struct{}{} the delete watcher returns
EmptyStruct == [nil |-> FALSE, status |-> "", tags |-> << >>]

\* what GetFunc returns: (result, metadata, err)
GetOk(snap) == [snap |-> snap, err |-> NoError]
GetErr(err) == [snap |-> NilSnapshot, err |-> err]

(***************************************************************************)
(* Operation tags (helper.go).                                             *)
(***************************************************************************)
\* WriteOperationTag, were it to start a collection of its own every time
WriteOperationTagReplaces(tags, uuid, now) ==
    [tags |-> <<Tag(OperationTagName(uuid), Timestamp(now))>>,
     key  |-> OperationTagName(uuid)]

\* WriteOperationTag, were it to stamp every mutation with the same key
WriteOperationTagFixedKey(tags, uuid, now) ==
    [tags |-> Append(tags, Tag(OperationTagName(1), Timestamp(now))),
     key  |-> OperationTagName(1)]

\* WriteOperationTag: appends {prefix+uuid, now} and returns the key
WriteOperationTag(tags, uuid, now) ==
    [tags |-> Append(tags, Tag(OperationTagName(uuid), Timestamp(now))),
     key  |-> OperationTagName(uuid)]

\* HasOperationTag, were it to accept any key under the reserved prefix
HasAnyOperationTag(tags, operationTag) ==
    \E i \in 1..Len(tags) : tags[i].name.pfx

HasOperationTag(tags, operationTag) ==
    \E i \in 1..Len(tags) : tags[i].name = operationTag

\* RemoveOperationTags, were it to drop every reserved-prefix tag whatever its age
RECURSIVE RemoveOperationTagsAnyAge(_, _)
RemoveOperationTagsAnyAge(tags, now) ==
    IF tags = << >> THEN << >>
    ELSE IF Head(tags).name.pfx
         THEN RemoveOperationTagsAnyAge(Tail(tags), now)
         ELSE <<Head(tags)>> \o RemoveOperationTagsAnyAge(Tail(tags), now)

\* RemoveOperationTags, were it to remove in place while it iterates, so that
\* the tag after a removed one is not looked at
RECURSIVE RemoveOperationTagsSkipsNext(_, _)
RemoveOperationTagsSkipsNext(tags, now) ==
    IF tags = << >> THEN << >>
    ELSE LET tag  == Head(tags)
             drop == /\ tag.name.pfx
                     /\ \/ ~tag.value.valid
                        \/ now - tag.value.at > defaultOperationTagMaxAge
         IN IF ~drop THEN <<tag>> \o RemoveOperationTagsSkipsNext(Tail(tags), now)
            ELSE IF Tail(tags) = << >> THEN << >>
            ELSE <<Head(Tail(tags))>> \o RemoveOperationTagsSkipsNext(Tail(Tail(tags)), now)

\* RemoveOperationTags, were it to keep a tag whose value does not parse
RECURSIVE RemoveOperationTagsKeepsUnparsed(_, _)
RemoveOperationTagsKeepsUnparsed(tags, now) ==
    IF tags = << >> THEN << >>
    ELSE LET tag  == Head(tags)
             rest == RemoveOperationTagsKeepsUnparsed(Tail(tags), now)
             drop == /\ tag.name.pfx
                     /\ tag.value.valid
                     /\ now - tag.value.at > defaultOperationTagMaxAge
         IN IF drop THEN rest ELSE <<tag>> \o rest

RECURSIVE RemoveOperationTags(_, _)
RemoveOperationTags(tags, now) ==
    IF tags = << >> THEN << >>
    ELSE LET tag  == Head(tags)
             rest == RemoveOperationTags(Tail(tags), now)
             drop == /\ tag.name.pfx
                     /\ \/ ~tag.value.valid
                        \/ now - tag.value.at > defaultOperationTagMaxAge
         IN IF drop THEN rest ELSE <<tag>> \o rest

(***************************************************************************)
(* The Refresh closures of the three watchers (helper.go).  Each maps one  *)
(* GetFunc answer to (result, state, err).                                 *)
(***************************************************************************)
Refreshed(res, state, err) == [res |-> res, state |-> state, err |-> err]

\* the create Refresh without its not-found workaround
CreateRefreshNotFoundFatal(get) ==
    IF get.err.set
    THEN Refreshed(NilSnapshot, "", get.err)
    ELSE Refreshed(get.snap, get.snap.status, NoError)

CreateRefresh(get) ==
    IF get.err.set
    THEN IF IsNotFound(get.err)
         THEN Refreshed(NilSnapshot, StatusUnknown, NoError)
         ELSE Refreshed(NilSnapshot, "", get.err)
    ELSE Refreshed(get.snap, get.snap.status, NoError)

\* the update Refresh, were it to absorb a 404 the way the create Refresh does
UpdateRefreshNotFoundPending(get, operationTagKey) ==
    IF get.err.set
    THEN IF get.err.code = StatusNotFound
         THEN Refreshed(NilSnapshot, UpdateStateUpdating, NoError)
         ELSE Refreshed(NilSnapshot, UpdateStateErrored, get.err)
    ELSE IF HasOperationTag(get.snap.tags, operationTagKey)
         THEN Refreshed(get.snap, UpdateStateUpdated, NoError)
         ELSE Refreshed(get.snap, UpdateStateUpdating, NoError)

\* the update Refresh, were it to report a snapshot without the tag as "errored"
UpdateRefreshUntaggedErrored(get, operationTagKey) ==
    IF get.err.set
    THEN Refreshed(NilSnapshot, UpdateStateErrored, get.err)
    ELSE IF HasOperationTag(get.snap.tags, operationTagKey)
         THEN Refreshed(get.snap, UpdateStateUpdated, NoError)
         ELSE Refreshed(get.snap, UpdateStateErrored, NoError)

\* the update Refresh, were it to wait for the status Provisioned as well
UpdateRefreshAwaitsProvisioned(get, operationTagKey) ==
    IF get.err.set
    THEN Refreshed(NilSnapshot, UpdateStateErrored, get.err)
    ELSE IF /\ HasOperationTag(get.snap.tags, operationTagKey)
            /\ get.snap.status = StatusProvisioned
         THEN Refreshed(get.snap, UpdateStateUpdated, NoError)
         ELSE Refreshed(get.snap, UpdateStateUpdating, NoError)

UpdateRefresh(get, operationTagKey) ==
    IF get.err.set
    THEN Refreshed(NilSnapshot, UpdateStateErrored, get.err)
    ELSE IF HasOperationTag(get.snap.tags, operationTagKey)
         THEN Refreshed(get.snap, UpdateStateUpdated, NoError)
         ELSE Refreshed(get.snap, UpdateStateUpdating, NoError)

\* the delete Refresh, were it to report "deleted" while the resource is fetched
DeleteRefreshDeletedWhileFound(get) ==
    IF ~get.err.set
    THEN Refreshed(EmptyStruct, DeleteStateDeleted, NoError)
    ELSE IF IsNotFound(get.err)
         THEN Refreshed(EmptyStruct, DeleteStateDeleted, NoError)
         ELSE Refreshed(NilSnapshot, DeleteStateErrored, get.err)

\* the delete Refresh, were it to swallow every error as "still deleting"
DeleteRefreshErrorsPending(get) ==
    IF ~get.err.set
    THEN Refreshed(EmptyStruct, DeleteStateDeleting, NoError)
    ELSE IF IsNotFound(get.err)
         THEN Refreshed(EmptyStruct, DeleteStateDeleted, NoError)
         ELSE Refreshed(EmptyStruct, DeleteStateDeleting, NoError)

DeleteRefresh(get) ==
    IF ~get.err.set
    THEN Refreshed(EmptyStruct, DeleteStateDeleting, NoError)
    ELSE IF IsNotFound(get.err)
         THEN Refreshed(EmptyStruct, DeleteStateDeleted, NoError)
         ELSE Refreshed(NilSnapshot, DeleteStateErrored, get.err)

\* the Pending sets, were a create Wait to wait on through the status Error
PendingWithError(o) ==
    CASE o = "create" -> {StatusProvisioning, StatusUnknown, StatusError}
      [] o = "update" -> {UpdateStateUpdating}
      [] o = "delete" -> {DeleteStateDeleting}
      [] OTHER -> {}

\* Pending and Target of each watcher's StateChangeConf
Pending(o) ==
    CASE o = "create" -> {StatusProvisioning, StatusUnknown}
      [] o = "update" -> {UpdateStateUpdating}
      [] o = "delete" -> {DeleteStateDeleting}
      [] OTHER -> {}

\* the Target sets, were Provisioning to end a create Wait too
TargetWithProvisioning(o) ==
    CASE o = "create" -> {StatusProvisioned, StatusProvisioning}
      [] o = "update" -> {UpdateStateUpdated}
      [] o = "delete" -> {DeleteStateDeleted}
      [] OTHER -> {}

Target(o) ==
    CASE o = "create" -> {StatusProvisioned}
      [] o = "update" -> {UpdateStateUpdated}
      [] o = "delete" -> {DeleteStateDeleted}
      [] OTHER -> {}

(***************************************************************************)
(* State.                                                                  *)
(***************************************************************************)
VARIABLES
    kind,            \* resource type of the handler: its GetFunc and Create differ
    op,              \* the handler that runs: "create", "update" or "delete"
    hpc,             \* handler position: "start", "wait", "done"
    tfState,         \* response.State: the local Terraform state of the resource
    commits,         \* State.Set calls of this handler, in order
    diagErrors,      \* error diagnostics appended to the response
    diagnostics,     \* response.Diagnostics: the error diagnostics, in order
    operationTagKey, \* key returned by WriteOperationTag (update)
    waitOk,          \* ok returned by the watcher's Wait: "none", "true", "false"
    waitSnap,        \* snapshot returned by the watcher's Wait
    remote,          \* the resource as the control plane holds it
    pendingPut,      \* the handler's PUT: accepted and not yet applied (set), applied
    deleting,        \* DELETE accepted by the control plane and not yet applied
    nextUuid,        \* uuid.NewString(): the next fresh value
    others,          \* PUTs made by other writers so far
    now,             \* time.Now(), in hours
    planTags,        \* the tags of the plan the handler reads
    mutations,       \* mutation requests (POST, PUT, DELETE) the handler submitted
    gpc,             \* refresh goroutine of WaitForStateContext
    mpc,             \* main loop of WaitForStateContext
    resCh,           \* resCh, a channel of capacity 1
    resClosed,       \* resCh closed by the goroutine's deferred close
    result,          \* the goroutine's `result`
    lastResult,      \* the main loop's `lastResult`
    notfoundTick,    \* the goroutine's notfoundTick
    cancelClosed,    \* cancelCh closed by the main loop
    ctxDone,         \* the caller cancelled ctx
    timedOut,        \* time.After(conf.Timeout) fired and was taken
    ret,             \* what WaitForStateContext returned
    foundTicks,      \* Refresh calls that fetched a snapshot
    lastGet,         \* GetFunc's answer at the latest tick
    trace,           \* summary of the ticks so far
    fn,              \* a helper function applied on its own: how far it got
    arg,             \* its arguments
    val              \* its results

hvars == <<kind, op, hpc, planTags, mutations, tfState, commits, diagErrors, diagnostics,
          operationTagKey, waitOk, waitSnap>>
rvars == <<remote, pendingPut, deleting, nextUuid, others, now>>
lvars == <<gpc, mpc, resCh, resClosed, result, lastResult, notfoundTick, cancelClosed,
           ctxDone, timedOut, ret>>
gvars == <<foundTicks, lastGet, trace>>
fvars == <<fn, arg, val>>
vars == <<hvars, rvars, lvars, gvars, fvars>>

ResourceKinds == {"network", "instance"}
Operations == {"create", "update", "delete"}

\* errors WaitForStateContext returns
NoLibError == [kind |-> "none", cause |-> NoError]
RefreshError(err) == [kind |-> "refresh", cause |-> err]
NotFoundError == [kind |-> "notfound", cause |-> NoError]
UnexpectedStateError == [kind |-> "unexpected", cause |-> NoError]
TimeoutError(lastError) == [kind |-> "timeout", cause |-> lastError.cause]
ContextError == [kind |-> "ctx", cause |-> NoError]

\* the Result struct of WaitForStateContext
Result(res, state, error, done) ==
    [res |-> res, state |-> state, error |-> error, done |-> done]
ZeroResult == Result(NilSnapshot, "", NoLibError, FALSE)

NotReturned == [returned |-> FALSE, res |-> NilSnapshot, error |-> NoLibError]
Returned(res, error) == [returned |-> TRUE, res |-> res, error |-> error]

NoTags == << >>
NoState == [present |-> FALSE, tags |-> NoTags]
NoKey == OperationTagName(0)
NoPut == [set |-> FALSE, applied |-> FALSE, tags |-> NoTags]
NoGet == GetErr(NoError)
\* summary of the ticks of one Wait:
\*   run       number of consecutive not-found answers up to the latest tick
\*   before    number of consecutive not-found answers just before the latest tick
\*   allNF     every tick so far answered not-found
\*   allFound  every tick so far fetched a snapshot
\*   tag       a tick fetched a snapshot that carried operationTagKey
\*   gone      a tick answered not-found
\*   err       a tick failed with an error other than not-found
\*   otherTag  a tick fetched a snapshot that carried a reserved-prefix tag
\*             other than operationTagKey
\*   afterTag, afterGone, afterErr
\*             a tick was made after the first tick of that sort
\*   scen      the number of ticks so far, while they follow
\*             [not-found, not-found, Provisioning, Provisioned]; -1 otherwise
NoTrace == [run |-> 0, before |-> 0, allNF |-> TRUE, allFound |-> TRUE,
            tag |-> FALSE, gone |-> FALSE, err |-> FALSE, otherTag |-> FALSE,
            afterTag |-> FALSE, afterGone |-> FALSE, afterErr |-> FALSE, scen |-> 0]

\* NewNetworkModel / NewInstanceModel: the tags surfaced to local state
NewModel(snap, t) == [present |-> TRUE, tags |-> RemoveOperationTags(snap.tags, t)]

StartTime == 13
InitialTags == {<<UserTag>>}

\* a handler is entered
HandlerStart ==
    /\ kind \in ResourceKinds
    /\ op \in Operations
    /\ hpc = "start"
    /\ planTags \in InitialTags
    /\ IF op = "create"
       THEN /\ remote = [exists |-> FALSE, status |-> StatusUnknown, tags |-> NoTags]
            /\ tfState = NoState
       ELSE /\ remote = [exists |-> TRUE, status |-> StatusProvisioned, tags |-> <<UserTag>>]
            /\ tfState = [present |-> TRUE, tags |-> <<UserTag>>]
    /\ commits = << >>
    /\ diagErrors = 0
    /\ diagnostics = << >>
    /\ operationTagKey = NoKey
    /\ waitOk = "none"
    /\ waitSnap = NilSnapshot
    /\ pendingPut = NoPut
    /\ deleting = FALSE
    /\ nextUuid = 1
    /\ others = 0
    /\ now = StartTime
    /\ mutations = 0
    /\ gpc = "idle"
    /\ mpc = "idle"
    /\ resCh = << >>
    /\ resClosed = FALSE
    /\ result = ZeroResult
    /\ lastResult = ZeroResult
    /\ notfoundTick = 0
    /\ cancelClosed = FALSE
    /\ ctxDone = FALSE
    /\ timedOut = FALSE
    /\ ret = NotReturned
    /\ foundTicks = 0
    /\ lastGet = NoGet
    /\ trace = NoTrace

\* no helper function is applied on its own
NoArg == [for |-> "none"]
NoVal == [of |-> "none"]

Init ==
    /\ HandlerStart
    /\ fn = "none"
    /\ arg = NoArg
    /\ val = NoVal

(***************************************************************************)
(* GetFunc of each resource type.                                          *)
(***************************************************************************)
\* getNetwork: a status other than 200 becomes a StatusCodeError
getNetwork(answer) ==
    IF answer.transport THEN GetErr(OtherError(0))
    ELSE IF answer.code # StatusOK THEN GetErr(OtherError(answer.code))
    ELSE GetOk(answer.snap)

\* getInstance: ReadJSONResponsePointer turns a non-2xx status into an *APIError
getInstance(answer) ==
    IF answer.transport THEN GetErr(OtherError(0))
    ELSE IF answer.code < 200 \/ answer.code >= 300 THEN GetErr(APIError(answer.code))
    ELSE GetOk(answer.snap)

GetFunc(k, answer) ==
    IF k = "network" THEN getNetwork(answer) ELSE getInstance(answer)

\* the answers the control plane can give to a GET of the resource
Answers ==
    {NoAnswer, StatusAnswer(StatusNotFound), StatusAnswer(StatusInternalServerError)}
    \cup (IF remote.exists /\ foundTicks < MaxFound
          THEN {OKAnswer(Snapshot(remote.status, remote.tags))}
          ELSE {})

\* a Refresh closure that submitted the mutation again after a failed fetch
TickMutationsResend(get) == IF get.err.set THEN 1 ELSE 0

\* mutation requests a Refresh closure sends: it calls GetFunc and nothing else
TickMutations(get) == 0

\* conf.Refresh of the running watcher
Refresh(get) ==
    CASE op = "create" -> CreateRefresh(get)
      [] op = "update" -> UpdateRefresh(get, operationTagKey)
      [] OTHER         -> DeleteRefresh(get)

(***************************************************************************)
(* Summary of the ticks, kept for the properties only.                     *)
(***************************************************************************)
AnswersNotFound(get) == get.err = APIError(StatusNotFound)
AnswersSnapshot(get) == get.err = NoError
CarriesKey(get, key) ==
    AnswersSnapshot(get) /\ \E i \in 1..Len(get.snap.tags) : get.snap.tags[i].name = key

ScenarioStep(n, get) ==
    CASE n \in {1, 2} -> AnswersNotFound(get)
      [] n = 3 -> AnswersSnapshot(get) /\ get.snap.status = StatusProvisioning
      [] n = 4 -> AnswersSnapshot(get) /\ get.snap.status = StatusProvisioned
      [] OTHER -> FALSE

CarriesOtherKey(get, key) ==
    /\ AnswersSnapshot(get)
    /\ \E i \in 1..Len(get.snap.tags) :
          get.snap.tags[i].name.pfx /\ get.snap.tags[i].name # key
AnswersError(get) == ~AnswersNotFound(get) /\ ~AnswersSnapshot(get)

Observe(tr, get, key) ==
    [run       |-> IF AnswersNotFound(get) THEN tr.run + 1 ELSE 0,
     before    |-> tr.run,
     allNF     |-> tr.allNF /\ AnswersNotFound(get),
     allFound  |-> tr.allFound /\ AnswersSnapshot(get),
     tag       |-> tr.tag \/ CarriesKey(get, key),
     gone      |-> tr.gone \/ AnswersNotFound(get),
     err       |-> tr.err \/ AnswersError(get),
     otherTag  |-> tr.otherTag \/ CarriesOtherKey(get, key),
     afterTag  |-> tr.tag,
     afterGone |-> tr.gone,
     afterErr  |-> tr.err,
     scen      |-> IF tr.scen >= 0 /\ ScenarioStep(tr.scen + 1, get) THEN tr.scen + 1 ELSE -1]

(***************************************************************************)
(* retry.StateChangeConf.WaitForStateContext: the refresh goroutine.       *)
(***************************************************************************)
\* the goroutine returns; its deferred close(resCh) runs
GoroutineReturn ==
    /\ gpc' = "exit"
    /\ resClosed' = TRUE

\* select { case <-time.After(conf.Delay): case <-cancelCh: return }
\* a blocked select takes the case that becomes ready first, and the timer,
\* armed when the select is entered, is not ready before a cancelCh that is
\* closed already
RefreshDelay ==
    /\ gpc = "delay"
    /\ \/ /\ ~cancelClosed
          /\ gpc' = "send"
          /\ UNCHANGED resClosed
       \/ /\ cancelClosed
          /\ GoroutineReturn
    /\ UNCHANGED <<hvars, rvars, gvars, mpc, resCh, result, lastResult, notfoundTick,
                   cancelClosed, ctxDone, timedOut, ret>>
    /\ UNCHANGED fvars

\* resCh <- result at the top of the loop
RefreshStore ==
    /\ gpc = "send"
    /\ Len(resCh) < 1
    /\ resCh' = Append(resCh, result)
    /\ gpc' = "sleep"
    /\ UNCHANGED <<hvars, rvars, gvars, mpc, resClosed, result, lastResult, notfoundTick,
                   cancelClosed, ctxDone, timedOut, ret>>
    /\ UNCHANGED fvars

\* the sleep between two fetches, were it to ignore cancelCh
RefreshSleepIgnoresCancel ==
    /\ gpc = "sleep"
    /\ gpc' = "refresh"
    /\ UNCHANGED <<hvars, rvars, gvars, mpc, resCh, resClosed, result, lastResult, notfoundTick,
                   cancelClosed, ctxDone, timedOut, ret>>
    /\ UNCHANGED fvars

\* select { case <-cancelCh: return; case <-time.After(wait): }
RefreshSleep ==
    /\ gpc = "sleep"
    /\ \/ /\ ~cancelClosed
          /\ gpc' = "refresh"
          /\ UNCHANGED resClosed
       \/ /\ cancelClosed
          /\ GoroutineReturn
    /\ UNCHANGED <<hvars, rvars, gvars, mpc, resCh, result, lastResult, notfoundTick,
                   cancelClosed, ctxDone, timedOut, ret>>
    /\ UNCHANGED fvars

\* how the loop body classifies what conf.Refresh returned, for a
\* StateChangeConf with these Pending and Target states:
\* the new result, the new notfoundTick, and whether the goroutine stops
ClassifyConf(r, nf, pending, target) ==
    IF r.err.set
    THEN [result |-> Result(r.res, r.state, RefreshError(r.err), FALSE), nf |-> nf, stop |-> TRUE]
    ELSE IF r.res.nil /\ target = {}
    THEN [result |-> Result(r.res, r.state, NoLibError, TRUE), nf |-> nf, stop |-> TRUE]
    ELSE IF r.res.nil
    THEN IF nf + 1 > NotFoundChecks
         THEN [result |-> Result(r.res, r.state, NotFoundError, FALSE), nf |-> nf + 1, stop |-> TRUE]
         ELSE [result |-> Result(r.res, r.state, NoLibError, FALSE), nf |-> nf + 1, stop |-> FALSE]
    ELSE IF r.state \in target
    THEN [result |-> Result(r.res, r.state, NoLibError, TRUE), nf |-> 0, stop |-> TRUE]
    ELSE IF r.state \in pending
    THEN [result |-> Result(r.res, r.state, NoLibError, FALSE), nf |-> 0, stop |-> FALSE]
    ELSE IF pending # {}
    THEN [result |-> Result(r.res, r.state, UnexpectedStateError, FALSE), nf |-> 0, stop |-> TRUE]
    ELSE [result |-> Result(r.res, r.state, NoLibError, FALSE), nf |-> 0, stop |-> FALSE]

\* the classification under the StateChangeConf of the running watcher
Classify(r, nf) == ClassifyConf(r, nf, Pending(op), Target(op))

\* res, currentState, err := conf.Refresh() and the rest of the loop body
RefreshTick ==
    /\ gpc = "refresh"
    /\ \E answer \in Answers :
          LET get == GetFunc(kind, answer)
              c   == Classify(Refresh(get), notfoundTick)
          IN /\ result' = c.result
             /\ notfoundTick' = c.nf
             /\ gpc' = IF c.stop THEN "final" ELSE "send"
             /\ foundTicks' = IF get.err.set THEN foundTicks ELSE foundTicks + 1
             /\ lastGet' = get
             /\ trace' = Observe(trace, get, operationTagKey)
             /\ mutations' = mutations + TickMutations(get)
    /\ UNCHANGED <<kind, op, hpc, planTags, tfState, commits, diagErrors, diagnostics, operationTagKey,
                   waitOk, waitSnap, rvars, mpc, resCh, resClosed, lastResult, cancelClosed,
                   ctxDone, timedOut, ret>>
    /\ UNCHANGED fvars

\* resCh <- result; return
RefreshFinal ==
    /\ gpc = "final"
    /\ Len(resCh) < 1
    /\ resCh' = Append(resCh, result)
    /\ GoroutineReturn
    /\ UNCHANGED <<hvars, rvars, gvars, mpc, result, lastResult, notfoundTick,
                   cancelClosed, ctxDone, timedOut, ret>>
    /\ UNCHANGED fvars

(***************************************************************************)
(* retry.StateChangeConf.WaitForStateContext: the main loop.               *)
(***************************************************************************)
\* case r, ok := <-resCh, a result is received
WaitReceive ==
    /\ mpc = "select"
    /\ resCh # << >>
    /\ resCh' = Tail(resCh)
    /\ IF Head(resCh).done
       THEN /\ ret' = Returned(Head(resCh).res, NoLibError)
            /\ mpc' = "returned"
            /\ UNCHANGED lastResult
       ELSE /\ lastResult' = Head(resCh)
            /\ UNCHANGED <<ret, mpc>>
    /\ UNCHANGED <<hvars, rvars, gvars, gpc, resClosed, result, notfoundTick,
                   cancelClosed, ctxDone, timedOut>>
    /\ UNCHANGED fvars

\* case r, ok := <-resCh, the channel is closed: return the last result
WaitClosed ==
    /\ mpc = "select"
    /\ resCh = << >>
    /\ resClosed
    /\ ret' = Returned(lastResult.res, lastResult.error)
    /\ mpc' = "returned"
    /\ UNCHANGED <<hvars, rvars, gvars, gpc, resCh, resClosed, result, lastResult,
                   notfoundTick, cancelClosed, ctxDone, timedOut>>
    /\ UNCHANGED fvars

\* case <-ctx.Done()
WaitCancelled ==
    /\ mpc = "select"
    /\ ctxDone
    /\ cancelClosed' = TRUE
    /\ ret' = Returned(NilSnapshot, ContextError)
    /\ mpc' = "returned"
    /\ UNCHANGED <<hvars, rvars, gvars, gpc, resCh, resClosed, result, lastResult,
                   notfoundTick, ctxDone, timedOut>>
    /\ UNCHANGED fvars

\* case <-timeout: the refresh grace period starts
WaitTimeout ==
    /\ mpc = "select"
    /\ cancelClosed' = TRUE
    /\ timedOut' = TRUE
    /\ mpc' = "grace"
    /\ UNCHANGED <<hvars, rvars, gvars, gpc, resCh, resClosed, result, lastResult,
                   notfoundTick, ctxDone, ret>>
    /\ UNCHANGED fvars

\* grace period, case r, ok := <-resCh
GraceReceive ==
    /\ mpc = "grace"
    /\ \/ /\ resCh # << >>
          /\ resCh' = Tail(resCh)
          /\ IF Head(resCh).done
             THEN /\ ret' = Returned(Head(resCh).res, NoLibError)
                  /\ mpc' = "returned"
                  /\ UNCHANGED lastResult
             ELSE /\ lastResult' = Head(resCh)
                  /\ UNCHANGED <<ret, mpc>>
       \/ /\ resCh = << >>
          /\ resClosed
          /\ ret' = Returned(NilSnapshot, TimeoutError(lastResult.error))
          /\ mpc' = "returned"
          /\ UNCHANGED <<resCh, lastResult>>
    /\ UNCHANGED <<hvars, rvars, gvars, gpc, resClosed, result, notfoundTick,
                   cancelClosed, ctxDone, timedOut>>
    /\ UNCHANGED fvars

\* the grace period, were it to end only once the goroutine has returned
GraceOverAfterGoroutine ==
    /\ mpc = "grace"
    /\ resClosed
    /\ ret' = Returned(NilSnapshot, TimeoutError(lastResult.error))
    /\ mpc' = "returned"
    /\ UNCHANGED <<hvars, rvars, gvars, gpc, resCh, resClosed, result, lastResult,
                   notfoundTick, cancelClosed, ctxDone, timedOut>>
    /\ UNCHANGED fvars

\* grace period, case <-ctx.Done() and case <-timeout
GraceOver ==
    /\ mpc = "grace"
    /\ ret' = Returned(NilSnapshot, TimeoutError(lastResult.error))
    /\ mpc' = "returned"
    /\ UNCHANGED <<hvars, rvars, gvars, gpc, resCh, resClosed, result, lastResult,
                   notfoundTick, cancelClosed, ctxDone, timedOut>>
    /\ UNCHANGED fvars

\* the caller cancels the context of a running Wait
Cancel ==
    /\ mpc \in {"select", "grace"}
    /\ ~ctxDone
    /\ ctxDone' = TRUE
    /\ UNCHANGED <<hvars, rvars, gvars, gpc, mpc, resCh, resClosed, result, lastResult,
                   notfoundTick, cancelClosed, timedOut, ret>>
    /\ UNCHANGED fvars

(***************************************************************************)
(* The control plane and the other writers.  The handler sees the resource *)
(* only through its fetches, so a change of the resource is placed where   *)
(* a fetch can observe it: while that fetch is in flight.                  *)
(***************************************************************************)
Observable == hpc = "wait" /\ gpc = "refresh"

StatusAccepted == 202
\* answers to a POST, PUT or DELETE
MutationAnswers ==
    {NoAnswer, StatusAnswer(StatusNotFound), StatusAnswer(StatusInternalServerError),
     StatusAnswer(StatusAccepted)}

\* the provisioning status of the resource changes
NextStatuses(s) ==
    CASE s = StatusUnknown      -> {StatusProvisioning}
      [] s = StatusProvisioning -> {StatusProvisioned, StatusError}
      [] s = StatusProvisioned  -> {StatusProvisioning, StatusDeprovisioning}
      [] s = StatusError        -> {StatusProvisioning}
      [] OTHER                  -> {}

RemoteStatus ==
    /\ Observable
    /\ op # "delete"
    /\ remote.exists
    /\ \E s \in NextStatuses(remote.status) :
          remote' = [remote EXCEPT !.status = s]
    /\ UNCHANGED <<hvars, lvars, gvars, pendingPut, deleting, nextUuid, others, now>>
    /\ UNCHANGED fvars

\* the accepted PUT of the handler is applied: it replaces the tags
RemoteApplyPut ==
    /\ Observable
    /\ pendingPut.set
    /\ remote.exists
    /\ remote' = [remote EXCEPT !.tags = pendingPut.tags]
    /\ pendingPut' = [pendingPut EXCEPT !.set = FALSE, !.applied = TRUE]
    /\ UNCHANGED <<hvars, lvars, gvars, deleting, nextUuid, others, now>>
    /\ UNCHANGED fvars

\* another writer's PUT is applied: it replaces the tags by its own, which
\* carry that writer's operation tag when it is another run of the provider
OtherWriterPut ==
    /\ Observable
    /\ op = "update"
    /\ remote.exists
    /\ others < MaxOther
    /\ others' = others + 1
    /\ \/ /\ remote' = [remote EXCEPT !.tags =
                           WriteOperationTag(NoTags, nextUuid, now).tags]
          /\ nextUuid' = nextUuid + 1
       \/ /\ remote' = [remote EXCEPT !.tags = NoTags]
          /\ UNCHANGED nextUuid
    /\ UNCHANGED <<hvars, lvars, gvars, pendingPut, deleting, now>>
    /\ UNCHANGED fvars

\* the accepted DELETE is applied
RemoteDeleted ==
    /\ Observable
    /\ deleting
    /\ remote.exists
    /\ remote' = [remote EXCEPT !.exists = FALSE]
    /\ UNCHANGED <<hvars, lvars, gvars, pendingPut, deleting, nextUuid, others, now>>
    /\ UNCHANGED fvars

(***************************************************************************)
(* The handlers (resource.go of each resource type).                       *)
(***************************************************************************)
\* ResourceTitle and ResourceName the handlers give their watchers
ResourceTitle(k) == IF k = "network" THEN "Network" ELSE "Instance"
ResourceName(k) == IF k = "network" THEN "network" ELSE "instance"
\* the resource's own identity: its id and the name the plan gives it
ResourceID == "id-1"
PlanName == "name-1"

\* an error diagnostic: the texts its summary and detail are formatted from
\* and the error printed in its detail
Diagnostic(from, title, name, verb, cause) ==
    [from |-> from, title |-> title, name |-> name, verb |-> verb, cause |-> cause]
Verb(o) ==
    CASE o = "create" -> "created" [] o = "update" -> "updated" [] OTHER -> "deleted"

\* the diagnostic of a Wait whose WaitForStateContext returned an error,
\* were its detail not to print the error
WaitDiagnosticWithoutCause(k, o, error) ==
    Diagnostic("wait", ResourceTitle(k), ResourceName(k), Verb(o), NoLibError)

\* the diagnostic of a Wait whose WaitForStateContext returned an error,
\* were its detail to print the name the plan gives the resource
WaitDiagnosticNamesResource(k, o, error) ==
    Diagnostic("wait", ResourceTitle(k), PlanName, Verb(o), error)

\* the diagnostic of a Wait whose WaitForStateContext returned an error
WaitDiagnostic(k, o, error) ==
    Diagnostic("wait", ResourceTitle(k), ResourceName(k), Verb(o), error)

\* the diagnostic of assertState: the two type names, no error
AssertDiagnostic == Diagnostic("assert", "", "", "", NoLibError)

\* the diagnostic of a handler whose mutation request failed
MutationDiagnostic(k, o) ==
    Diagnostic("request", ResourceTitle(k), ResourceName(k), Verb(o),
               [kind |-> "request", cause |-> NoError])

\* stateWatcher.Wait begins: WaitForStateContext starts its goroutine
StartWait ==
    /\ hpc' = "wait"
    /\ gpc' = "delay"
    /\ mpc' = "select"

\* the handler returns before any Wait, with one error diagnostic
FailEarly ==
    /\ hpc' = "done"
    /\ diagErrors' = diagErrors + 1
    /\ diagnostics' = Append(diagnostics, MutationDiagnostic(kind, op))
    /\ UNCHANGED <<gpc, mpc>>

\* every Create, were it to commit the POST's answer before it waits
CommitsBeforeWaitEvery(k) == TRUE

\* NetworkResource.Create commits the POST's answer before it waits;
\* InstanceResource.Create does not
CommitsBeforeWait(k) == k = "network"

\* Create, up to the call of stateWatcher.Wait
CreateSubmit ==
    /\ op = "create"
    /\ hpc = "start"
    /\ mutations' = mutations + 1
    /\ \E answer \in MutationAnswers :
          IF ~answer.transport /\ answer.code = StatusAccepted
          THEN \E s \in {StatusUnknown, StatusProvisioning} :
               LET created == Snapshot(s, RemoveOperationTags(planTags, now))
               IN /\ remote' = [exists |-> TRUE, status |-> created.status, tags |-> created.tags]
                  /\ IF CommitsBeforeWait(kind)
                     THEN /\ tfState' = NewModel(created, now)
                          /\ commits' = Append(commits, "response")
                     ELSE UNCHANGED <<tfState, commits>>
                  /\ StartWait
                  /\ UNCHANGED <<diagErrors, diagnostics>>
          ELSE /\ FailEarly
               /\ UNCHANGED <<remote, tfState, commits>>
    /\ UNCHANGED <<kind, op, planTags, operationTagKey, waitOk, waitSnap,
                   pendingPut, deleting, nextUuid, others, now, gvars,
                   resCh, resClosed, result, lastResult, notfoundTick, cancelClosed,
                   ctxDone, timedOut, ret>>
    /\ UNCHANGED fvars

\* Update, were it to submit the PUT before it stamps the request
UpdateSubmitUnstamped ==
    /\ op = "update"
    /\ hpc = "start"
    /\ LET params  == RemoveOperationTags(planTags, now)
           stamped == WriteOperationTag(params, nextUuid, now)
       IN /\ operationTagKey' = stamped.key
          /\ nextUuid' = nextUuid + 1
          /\ mutations' = mutations + 1
          /\ \E answer \in MutationAnswers :
                IF ~answer.transport /\ answer.code = StatusAccepted
                THEN /\ pendingPut' = [set |-> TRUE, applied |-> FALSE, tags |-> params]
                     /\ StartWait
                     /\ UNCHANGED <<diagErrors, diagnostics>>
                ELSE /\ FailEarly
                     /\ UNCHANGED pendingPut
    /\ UNCHANGED <<kind, op, planTags, tfState, commits, waitOk, waitSnap,
                   remote, deleting, others, now, gvars,
                   resCh, resClosed, result, lastResult, notfoundTick, cancelClosed,
                   ctxDone, timedOut, ret>>
    /\ UNCHANGED fvars

\* Update, up to the call of stateWatcher.Wait
UpdateSubmit ==
    /\ op = "update"
    /\ hpc = "start"
    /\ LET stamped == WriteOperationTag(RemoveOperationTags(planTags, now), nextUuid, now)
       IN /\ operationTagKey' = stamped.key
          /\ nextUuid' = nextUuid + 1
          /\ mutations' = mutations + 1
          /\ \E answer \in MutationAnswers :
                IF ~answer.transport /\ answer.code = StatusAccepted
                THEN /\ pendingPut' = [set |-> TRUE, applied |-> FALSE, tags |-> stamped.tags]
                     /\ StartWait
                     /\ UNCHANGED <<diagErrors, diagnostics>>
                ELSE /\ FailEarly
                     /\ UNCHANGED pendingPut
    /\ UNCHANGED <<kind, op, planTags, tfState, commits, waitOk, waitSnap,
                   remote, deleting, others, now, gvars,
                   resCh, resClosed, result, lastResult, notfoundTick, cancelClosed,
                   ctxDone, timedOut, ret>>
    /\ UNCHANGED fvars

\* NetworkResource.Delete goes on to wait when the DELETE is answered 404;
\* InstanceResource.Delete fails on every status outside 2xx
DeleteAnswerOk(k, answer) ==
    /\ ~answer.transport
    /\ \/ answer.code = StatusAccepted
       \/ k = "network" /\ answer.code = StatusNotFound

\* Delete, up to the call of stateWatcher.Wait
DeleteSubmit ==
    /\ op = "delete"
    /\ hpc = "start"
    /\ mutations' = mutations + 1
    /\ \E answer \in MutationAnswers :
          IF DeleteAnswerOk(kind, answer)
          THEN /\ deleting' = (answer.code = StatusAccepted)
               /\ StartWait
               /\ UNCHANGED <<diagErrors, diagnostics>>
          ELSE /\ FailEarly
               /\ UNCHANGED deleting
    /\ UNCHANGED <<kind, op, planTags, tfState, commits, operationTagKey, waitOk, waitSnap,
                   remote, pendingPut, nextUuid, others, now, gvars,
                   resCh, resClosed, result, lastResult, notfoundTick, cancelClosed,
                   ctxDone, timedOut, ret>>
    /\ UNCHANGED fvars

\* assertState: the result must be a non-nil *T
assertState(state) == ~state.nil

\* the rest of the watcher's Wait once WaitForStateContext has returned, and
\* the rest of the handler
WaitFinish ==
    /\ hpc = "wait"
    /\ ret.returned
    /\ hpc' = "done"
    /\ IF ret.error.kind # "none"
       THEN /\ diagErrors' = diagErrors + 1
            /\ diagnostics' = Append(diagnostics, WaitDiagnostic(kind, op, ret.error))
            /\ waitOk' = "false"
            /\ UNCHANGED <<waitSnap, tfState, commits>>
       ELSE IF op = "delete"
       THEN /\ waitOk' = "true"
            /\ UNCHANGED <<diagErrors, diagnostics, waitSnap, tfState, commits>>
       ELSE IF assertState(ret.res)
       THEN /\ waitOk' = "true"
            /\ waitSnap' = ret.res
            /\ tfState' = NewModel(ret.res, now)
            /\ commits' = Append(commits, "wait")
            /\ UNCHANGED <<diagErrors, diagnostics>>
       ELSE /\ diagErrors' = diagErrors + 1
            /\ diagnostics' = Append(diagnostics, AssertDiagnostic)
            /\ waitOk' = "false"
            /\ UNCHANGED <<waitSnap, tfState, commits>>
    /\ UNCHANGED <<kind, op, planTags, mutations, operationTagKey, rvars, lvars, gvars>>
    /\ UNCHANGED fvars

Next ==
    \/ CreateSubmit
    \/ UpdateSubmit
    \/ DeleteSubmit
    \/ WaitFinish
    \/ RefreshDelay
    \/ RefreshStore
    \/ RefreshSleep
    \/ RefreshTick
    \/ RefreshFinal
    \/ WaitReceive
    \/ WaitClosed
    \/ WaitCancelled
    \/ WaitTimeout
    \/ GraceReceive
    \/ GraceOver
    \/ Cancel
    \/ RemoteStatus
    \/ RemoteApplyPut
    \/ OtherWriterPut
    \/ RemoteDeleted

Spec == Init /\ [][Next]_vars

\* one handler call and its control plane, no other writer of the resource's
\* tags taking part
LiveNext ==
    \/ CreateSubmit
    \/ UpdateSubmit
    \/ DeleteSubmit
    \/ WaitFinish
    \/ RefreshDelay
    \/ RefreshStore
    \/ RefreshSleep
    \/ RefreshTick
    \/ RefreshFinal
    \/ WaitReceive
    \/ WaitClosed
    \/ WaitCancelled
    \/ WaitTimeout
    \/ GraceReceive
    \/ GraceOver
    \/ Cancel
    \/ RemoteStatus
    \/ RemoteApplyPut
    \/ RemoteDeleted

\* the program with its two timers: time.After(conf.Timeout) fires while the
\* loop is in its select, and the timer of the refresh grace period fires
\* while the loop waits for the goroutine; nothing is assumed of the fetches,
\* of the goroutine or of the control plane
LiveSpec == Init /\ [][LiveNext]_vars /\ WF_vars(WaitTimeout) /\ WF_vars(GraceOver)

(***************************************************************************)
(* The helper functions applied on their own: the tag helpers of helper.go *)
(* on tag collections of every shape.                                      *)
(***************************************************************************)
\* tags in a collection given to a helper
MaxTags == 2
\* hours that may pass between two applications of RemoveOperationTags
MaxLater == 2

\* the tags a collection may hold: user tags and operation tags, whose value
\* is a timestamp or some other text
TagValues == {Timestamp(0), Timestamp(2), [valid |-> FALSE, at |-> 0]}
TagNames == {UserTagName(1), OperationTagName(1), OperationTagName(2)}
SomeTags == {Tag(n, v) : n \in TagNames, v \in TagValues}
RECURSIVE TagLists(_)
TagLists(n) ==
    IF n = 0 THEN {<< >>}
    ELSE LET shorter == TagLists(n - 1)
         IN shorter \cup {Append(l, t) : l \in {x \in shorter : Len(x) = n - 1}, t \in SomeTags}
\* time.Now() at the call: around the age limit of a tag written at 0 or 2
Clock == defaultOperationTagMaxAge..(defaultOperationTagMaxAge + 2)

\* a *[]coreapi.Tag: nil, or a pointer to the tags
NilTags == [nil |-> TRUE, tags |-> << >>]
TagsPointer(tags) == [nil |-> FALSE, tags |-> tags]

RemoveArgs ==
    {[for |-> "RemoveOperationTags", tags |-> TagsPointer(l), now |-> t] :
        l \in TagLists(MaxTags), t \in Clock}
WriteArgs ==
    {[for |-> "WriteOperationTag", tags |-> m, now |-> t, uuid |-> u] :
        m \in {NilTags} \cup {TagsPointer(l) : l \in TagLists(MaxTags)},
        t \in {defaultOperationTagMaxAge}, u \in 3..4}

\* RemoveOperationTags(tags) on a pointer: nil stays nil
RemoveOperationTagsPointer(ptr, t) ==
    IF ptr.nil THEN NilTags ELSE TagsPointer(RemoveOperationTags(ptr.tags, t))

\* WriteOperationTag(metadata): a nil metadata.Tags becomes an empty collection first
WriteOperationTagMetadata(ptr, uuid, t) ==
    LET tags    == IF ptr.nil THEN << >> ELSE ptr.tags
        written == WriteOperationTag(tags, uuid, t)
    IN [tags |-> TagsPointer(written.tags), key |-> written.key]

ApplyRemoveOperationTags ==
    /\ fn = "none"
    /\ arg.for = "RemoveOperationTags"
    /\ fn' = "removed"
    /\ val' = [of |-> "RemoveOperationTags",
               first |-> RemoveOperationTagsPointer(arg.tags, arg.now)]
    /\ UNCHANGED <<arg, hvars, rvars, lvars, gvars>>

\* the result is given to RemoveOperationTags again, at once or some hours later
ApplyRemoveOperationTagsAgain ==
    /\ fn = "removed"
    /\ fn' = "removedAgain"
    /\ \E later \in 0..MaxLater :
          val' = [of |-> "RemoveOperationTags",
                  first |-> val.first,
                  later |-> later,
                  second |-> RemoveOperationTagsPointer(val.first, arg.now + later)]
    /\ UNCHANGED <<arg, hvars, rvars, lvars, gvars>>

ApplyWriteOperationTag ==
    /\ fn = "none"
    /\ arg.for = "WriteOperationTag"
    /\ fn' = "written"
    /\ val' = [of |-> "WriteOperationTag",
               written |-> WriteOperationTagMetadata(arg.tags, arg.uuid, arg.now)]
    /\ UNCHANGED <<arg, hvars, rvars, lvars, gvars>>

\* tag keys as texts: sequences of characters, "t/" standing for the
\* reserved prefix "terraform.nscale.com/"
MaxKeyLen == 3
Chars == {"t", "/", "a"}
RECURSIVE Texts(_)
Texts(n) ==
    IF n = 0 THEN {<< >>}
    ELSE LET shorter == Texts(n - 1)
         IN shorter \cup {Append(x, c) : x \in {y \in shorter : Len(y) = n - 1}, c \in Chars}
TerraformOperationTagPrefix == <<"t", "/">>

\* strings.HasPrefix
HasPrefix(text, prefix) ==
    Len(text) >= Len(prefix) /\ SubSeq(text, 1, Len(prefix)) = prefix

\* operationKey := TerraformOperationTagPrefix + uuid.NewString()
OperationKey(uuid) == TerraformOperationTagPrefix \o uuid

\* a types.String of the configuration
StringValue(text) == [null |-> FALSE, unknown |-> FALSE, text |-> text]

\* ValidateString, were it to compare the key with the prefix for equality
ValidateStringEquals(value, prefix) ==
    IF value.null \/ value.unknown THEN {}
    ELSE IF value.text = prefix THEN {value.text}
    ELSE {}

\* NoReservedPrefixValidator.ValidateString: the error diagnostics it adds,
\* each named by the value it rejects
ValidateString(value, prefix) ==
    IF value.null \/ value.unknown THEN {}
    ELSE IF HasPrefix(value.text, prefix) THEN {value.text}
    ELSE {}

\* a types.Map of the configuration: null, unknown, or known with its keys
NullMap == [null |-> TRUE, unknown |-> FALSE, keys |-> {}]
UnknownMap == [null |-> FALSE, unknown |-> TRUE, keys |-> {}]
MapValue(keys) == [null |-> FALSE, unknown |-> FALSE, keys |-> keys]

\* mapvalidator.KeysAre(validators.NoReservedPrefix(prefix)): every key of a
\* known map is validated as a string
KeysAre(config, prefix) ==
    IF config.null \/ config.unknown THEN {}
    ELSE UNION {ValidateString(StringValue(k), prefix) : k \in config.keys}

\* the validators of the "tags" attribute in the schema of each resource type
TagsValidators(k) ==
    CASE k = "network"  -> {"KeysAre(NoReservedPrefix)"}
      [] k = "instance" -> {"KeysAre(NoReservedPrefix)"}
      [] OTHER          -> {}

\* validation of the "tags" attribute of a configuration
ValidateTags(k, config) ==
    IF "KeysAre(NoReservedPrefix)" \in TagsValidators(k)
    THEN KeysAre(config, TerraformOperationTagPrefix)
    ELSE {}

ValidateArgs ==
    {[for |-> "ValidateTags", kind |-> k, config |-> c] :
        k \in ResourceKinds,
        c \in {NullMap, UnknownMap, MapValue({})}
              \cup {MapValue({a, b}) : a \in Texts(MaxKeyLen), b \in Texts(MaxKeyLen)}}

ApplyValidateTags ==
    /\ fn = "none"
    /\ arg.for = "ValidateTags"
    /\ fn' = "validated"
    /\ val' = [of |-> "ValidateTags", errors |-> ValidateTags(arg.kind, arg.config)]
    /\ UNCHANGED <<arg, hvars, rvars, lvars, gvars>>

\* the two HTTP clients of the repository: package nscale (retryPolicy as
\* CheckRetry) and package client (retryablehttp.NewClient() as it comes)
HTTPClients == {"nscale", "client"}

\* retryablehttp.NewClient(): RetryMax
RetryMax == 4

\* what the server may answer to one attempt
HTTPAnswers == MutationAnswers \cup {StatusAnswer(429), StatusAnswer(501)}

\* retryablehttp.DefaultRetryPolicy: transport errors, 429, and status 0 or
\* >= 500 other than 501 are retried
DefaultRetryPolicy(answer) ==
    \/ answer.transport
    \/ answer.code = 429
    \/ answer.code = 0
    \/ answer.code >= 500 /\ answer.code # 501

\* retryPolicy
retryPolicy(answer) ==
    IF ~answer.transport /\ answer.code >= StatusInternalServerError
    THEN FALSE
    ELSE DefaultRetryPolicy(answer)

\* the CheckRetry of the client built by NewHTTPClient
CheckRetry(client, answer) ==
    IF client = "nscale" THEN retryPolicy(answer) ELSE DefaultRetryPolicy(answer)

DoArgs ==
    {[for |-> "Do", client |-> c, method |-> m] :
        c \in HTTPClients, m \in {"POST", "PUT", "DELETE"}}

\* the answers to the attempts made so far by one call of HTTPClient.Do
Sent == IF val.of = "Do" THEN val.sent ELSE << >>

\* HTTPClient.Do: one attempt of c.internal.Do(r); the request is sent again
\* while CheckRetry says so and fewer than RetryMax retries were made
Do ==
    /\ arg.for = "Do"
    /\ fn \in {"none", "sending"}
    /\ \E answer \in HTTPAnswers :
          /\ val' = [of |-> "Do", sent |-> Append(Sent, answer)]
          /\ fn' = IF CheckRetry(arg.client, answer) /\ Len(Sent) < RetryMax
                   THEN "sending"
                   ELSE "returned"
    /\ UNCHANGED <<arg, hvars, rvars, lvars, gvars>>

\* one call of ResourceReader.Read: the resource type, what the server
\* answers to the GET, and the local state the handler was given
ReadArgs ==
    {[for |-> "Read", kind |-> k, answer |-> a, state |-> [present |-> TRUE, tags |-> l]] :
        k \in ResourceKinds,
        a \in {NoAnswer, StatusAnswer(StatusNotFound), StatusAnswer(StatusInternalServerError)}
              \cup {OKAnswer(Snapshot(st, <<UserTag>>)) : st \in ProvisioningStatuses},
        l \in InitialTags \cup {NoTags}}

\* ResourceReader.Read, were it to take every failed fetch for not-found
ReadEveryErrorNotFound(k, answer, state) ==
    LET get == GetFunc(k, answer)
    IN IF get.err.set
       THEN [ok |-> FALSE, res |-> NilSnapshot, state |-> NoState,
             warnings |-> <<Diagnostic("read", ResourceTitle(k), ResourceName(k), ResourceID, NoLibError)>>,
             errors |-> << >>]
       ELSE [ok |-> TRUE, res |-> get.snap, state |-> state,
             warnings |-> << >>, errors |-> << >>]

\* ResourceReader.Read: the result, the local state it leaves and the
\* diagnostics it adds
Read(k, answer, state) ==
    LET get == GetFunc(k, answer)
    IN IF get.err.set
       THEN IF IsNotFound(get.err)
            THEN [ok |-> FALSE, res |-> NilSnapshot, state |-> NoState,
                  warnings |-> <<Diagnostic("read", ResourceTitle(k), ResourceName(k), ResourceID, NoLibError)>>,
                  errors |-> << >>]
            ELSE [ok |-> FALSE, res |-> NilSnapshot, state |-> state,
                  warnings |-> << >>,
                  errors |-> <<Diagnostic("read", ResourceTitle(k), ResourceName(k), "", RefreshError(get.err))>>]
       ELSE [ok |-> TRUE, res |-> get.snap, state |-> state,
             warnings |-> << >>, errors |-> << >>]

ApplyRead ==
    /\ fn = "none"
    /\ arg.for = "Read"
    /\ fn' = "read"
    /\ val' = [of |-> "Read", read |-> Read(arg.kind, arg.answer, arg.state)]
    /\ UNCHANGED <<arg, hvars, rvars, lvars, gvars>>

\* a types.Int32 and a *int; a port of the configuration is an int32, which
\* int() widens and int32() brings back unchanged
Int32Null == [null |-> TRUE, value |-> 0]
Int32Value(n) == [null |-> FALSE, value |-> n]
NilInt == [nil |-> TRUE, value |-> 0]
IntPointer(n) == [nil |-> FALSE, value |-> n]

\* the security group rules of a configuration
RuleArgs ==
    {[for |-> "SecurityGroupRule",
      rule |-> [type |-> ty, protocol |-> "tcp", from_port |-> f, to_port |-> t,
                cidr_block |-> "0.0.0.0/0"]] :
        ty \in {"ingress", "egress"},
        f \in {Int32Null} \cup {Int32Value(n) : n \in {22, 80, 443}},
        t \in {Int32Null} \cup {Int32Value(n) : n \in {22, 80, 443}}}

\* SecurityGroupRuleModel.NscaleSecurityGroupRule: both branches assign port,
\* portMax stays nil
NscaleSecurityGroupRule(m) ==
    LET fromPort == IF m.from_port.null THEN NilInt ELSE IntPointer(m.from_port.value)
        port     == IF m.to_port.null THEN fromPort ELSE IntPointer(m.to_port.value)
        portMax  == NilInt
    IN [Direction |-> m.type, Port |-> port, PortMax |-> portMax,
        Prefix |-> m.cidr_block, Protocol |-> m.protocol]

\* NewSecurityGroupRuleModel
NewSecurityGroupRuleModel(source) ==
    [type       |-> source.Direction,
     protocol   |-> source.Protocol,
     from_port  |-> IF source.Port.nil THEN Int32Null ELSE Int32Value(source.Port.value),
     to_port    |-> IF source.PortMax.nil THEN Int32Null ELSE Int32Value(source.PortMax.value),
     cidr_block |-> source.Prefix]

\* a rule of the plan is sent to the API and the rule the API returns is read back
ApplySecurityGroupRule ==
    /\ fn = "none"
    /\ arg.for = "SecurityGroupRule"
    /\ fn' = "converted"
    /\ val' = [of |-> "SecurityGroupRule",
               sent |-> NscaleSecurityGroupRule(arg.rule),
               back |-> NewSecurityGroupRuleModel(NscaleSecurityGroupRule(arg.rule))]
    /\ UNCHANGED <<arg, hvars, rvars, lvars, gvars>>

\* the waits of the legacy ComputeClusterResource (internal/provider), which
\* builds its StateChangeConf itself: Pending {"updating"} or {"deleting"},
\* Target {"completed"}, NotFoundChecks not set
LegacyArgs ==
    {[for |-> "LegacyWait", op |-> o, operationKey |-> OperationTagName(1)] :
        o \in {"update", "delete"}}

\* what the server may answer to the GET of the cluster list: no answer, a
\* status other than 200, or the list, without the cluster or with it
LegacyAnswers ==
    {NoAnswer, StatusAnswer(StatusInternalServerError), OKAnswer(NilSnapshot)}
    \cup {OKAnswer(Snapshot(StatusProvisioned, l)) :
              l \in {<<UserTag>>, <<Tag(OperationTagName(1), [valid |-> FALSE, at |-> 0])>>}}

\* Refresh of the legacy update wait: the cluster with the operation tag is
\* "completed"; anything else is a nil result in state "updating"
LegacyUpdateRefresh(answer, operationKey) ==
    IF answer.transport THEN Refreshed(NilSnapshot, "", OtherError(0))
    ELSE IF answer.code # StatusOK THEN Refreshed(NilSnapshot, "", OtherError(answer.code))
    ELSE IF /\ ~answer.snap.nil
            /\ \E i \in 1..Len(answer.snap.tags) : answer.snap.tags[i].name = operationKey
         THEN Refreshed(answer.snap, "completed", NoError)
         ELSE Refreshed(NilSnapshot, "updating", NoError)

\* Refresh of the legacy delete wait: a listed cluster is a nil result in
\* state "deleting", an absent one &struct{}{} in state "completed"
LegacyDeleteRefresh(answer) ==
    IF answer.transport THEN Refreshed(NilSnapshot, "", OtherError(0))
    ELSE IF answer.code # StatusOK THEN Refreshed(NilSnapshot, "", OtherError(answer.code))
    ELSE IF ~answer.snap.nil
         THEN Refreshed(NilSnapshot, "deleting", NoError)
         ELSE Refreshed(EmptyStruct, "completed", NoError)

\* one tick of the refresh goroutine of a legacy wait
LegacyTick ==
    /\ arg.for = "LegacyWait"
    /\ fn \in {"none", "polling"}
    /\ \E answer \in LegacyAnswers :
          LET nf == IF val.of = "LegacyWait" THEN val.notfoundTick ELSE 0
              r  == IF arg.op = "update"
                    THEN LegacyUpdateRefresh(answer, arg.operationKey)
                    ELSE LegacyDeleteRefresh(answer)
              c  == ClassifyConf(r, nf,
                                 IF arg.op = "update" THEN {"updating"} ELSE {"deleting"},
                                 {"completed"})
          IN /\ val' = [of |-> "LegacyWait", answer |-> answer, refreshed |-> r,
                        notfoundTick |-> c.nf, result |-> c.result]
             /\ fn' = IF c.stop THEN "polled" ELSE "polling"
    /\ UNCHANGED <<arg, hvars, rvars, lvars, gvars>>

FnArgs ==
    RemoveArgs \cup WriteArgs \cup ValidateArgs \cup DoArgs \cup ReadArgs \cup RuleArgs
    \cup LegacyArgs

FnInit ==
    /\ HandlerStart
    /\ kind = "network"
    /\ op = "update"
    /\ fn = "none"
    /\ arg \in FnArgs
    /\ val = NoVal

FnNext ==
    \/ ApplyRemoveOperationTags
    \/ ApplyRemoveOperationTagsAgain
    \/ ApplyWriteOperationTag
    \/ ApplyValidateTags
    \/ Do
    \/ ApplyRead
    \/ ApplySecurityGroupRule
    \/ LegacyTick

FnSpec == FnInit /\ [][FnNext]_vars

(***************************************************************************)
(* Properties.                                                             *)
(***************************************************************************)
\* how a Wait ended
Succeeded == ret.returned /\ ret.error.kind = "none"
\* the Wait was ended by the timeout or by the caller's cancellation
CutShort == ret.returned /\ ret.error.kind \in {"timeout", "ctx"}
\* the goroutine's result leaves the wait pending
ResultPending == result.error.kind = "none" /\ ~result.done
\* the latest tick fetched a snapshot with this provisioning status
LastFetched(status) == AnswersSnapshot(lastGet) /\ lastGet.snap.status = status
\* the ticks so far: k not-found answers, then one Provisioned snapshot
NotFoundThenProvisioned(k) ==
    /\ foundTicks = 1
    /\ trace.before = k
    /\ LastFetched(StatusProvisioned)
\* the ticks so far all answered not-found
OnlyNotFound == trace.allNF /\ trace.run >= 1

\* C1 as stated: in a create Wait, not-found on the first k ticks and a
\* Provisioned snapshot on tick k+1 give success with that snapshot, for every
\* k >= 0, and a not-found tick never turns into a failure: a Wait all of whose
\* ticks answered not-found ends only by timeout or cancellation.
C1_AnyNumberOfNotFound ==
    op = "create" /\ ret.returned =>
        /\ \A k \in 0..(NotFoundChecks + 1) :
               NotFoundThenProvisioned(k) /\ ~CutShort =>
                   Succeeded /\ ret.res = lastGet.snap
        /\ OnlyNotFound => CutShort

\* C1, what the code does: in a create Wait that is neither cancelled nor
\* timed out, not-found on the first k ticks and a Provisioned snapshot on tick
\* k+1 give success with that snapshot for every k from 0 to NotFoundChecks;
\* up to NotFoundChecks consecutive not-found ticks are absorbed as pending,
\* and the next one ends the Wait with a not-found failure.
C1_NotFoundAbsorbedUpToChecks ==
    op = "create" =>
        /\ \A k \in 0..NotFoundChecks :
               /\ ret.returned /\ NotFoundThenProvisioned(k) /\ ~CutShort =>
                      Succeeded /\ ret.res = lastGet.snap
               /\ hpc = "done" /\ NotFoundThenProvisioned(k) /\ ~CutShort =>
                      waitOk = "true" /\ waitSnap = lastGet.snap
        /\ OnlyNotFound /\ trace.run <= NotFoundChecks => ResultPending
        /\ OnlyNotFound /\ trace.run > NotFoundChecks =>
               /\ trace.run = NotFoundChecks + 1
               /\ result.error = NotFoundError
        /\ ret.returned /\ OnlyNotFound /\ ~CutShort =>
               /\ trace.run = NotFoundChecks + 1
               /\ ret.error = NotFoundError
        /\ foundTicks = 1 /\ LastFetched(StatusProvisioned) => trace.before <= NotFoundChecks

\* a create Wait returned ok after NotFoundChecks not-found ticks and one
\* Provisioned snapshot
C1_Witness ==
    /\ op = "create"
    /\ hpc = "done"
    /\ waitOk = "true"
    /\ NotFoundThenProvisioned(NotFoundChecks)
    /\ waitSnap.status = StatusProvisioned

\* C2: an update Wait that returns success does so on the first tick whose
\* snapshot carries operationTagKey and returns that snapshot; no tick follows
\* that one; a snapshot without the key, with or without other reserved-prefix
\* tags, leaves the wait pending.
C2_UpdateSucceedsAtFirstTaggedTick ==
    op = "update" =>
        /\ Succeeded =>
               /\ trace.tag
               /\ CarriesKey(lastGet, operationTagKey)
               /\ ret.res = lastGet.snap
        /\ ~trace.afterTag
        /\ ret.returned /\ trace.tag /\ ~CutShort => Succeeded
        /\ AnswersSnapshot(lastGet) /\ ~CarriesKey(lastGet, operationTagKey) => ResultPending
        /\ waitOk = "true" => CarriesKey(lastGet, operationTagKey) /\ waitSnap = lastGet.snap

\* an update Wait returned ok on its third snapshot, after a snapshot that
\* carried another writer's reserved-prefix tag
C2_Witness ==
    /\ op = "update"
    /\ waitOk = "true"
    /\ foundTicks = 3
    /\ trace.otherTag
    /\ HasOperationTag(waitSnap.tags, operationTagKey)

\* C3: a delete Wait returns success on the first tick that answers
\* not-found, after any number of ticks that still fetched the resource; no
\* tick follows; a Wait whose ticks all fetched the resource has not failed.
C3_DeleteSucceedsAtFirstNotFound ==
    op = "delete" =>
        /\ Succeeded => trace.gone /\ AnswersNotFound(lastGet)
        /\ ~trace.afterGone
        /\ ret.returned /\ trace.gone /\ ~CutShort => Succeeded
        /\ trace.allFound => ResultPending
        /\ ret.returned /\ trace.allFound => CutShort
        /\ hpc = "done" /\ trace.gone /\ ~CutShort => waitOk = "true"

\* a delete Wait returned ok on a not-found tick that followed two ticks on
\* which the resource still existed
C3_Witness ==
    /\ op = "delete"
    /\ waitOk = "true"
    /\ foundTicks = 2
    /\ trace.gone
    /\ diagErrors = 0

\* C4: in every watcher the first tick that fails with an error other than
\* not-found is the last tick, and the Wait, unless the timeout or a
\* cancellation ended it, returns that error.
C4_FatalErrorEndsWait ==
    /\ ~trace.afterErr
    /\ trace.err => lastGet.err.set /\ AnswersError(lastGet)
    /\ ret.returned /\ trace.err /\ ~CutShort => ret.error = RefreshError(lastGet.err)
    /\ hpc = "done" /\ trace.err /\ ~CutShort => waitOk = "false" /\ diagErrors = 1

\* a delete Wait failed on its second tick, after one tick on which the
\* resource still existed
C4_Witness ==
    /\ op = "delete"
    /\ hpc = "done"
    /\ waitOk = "false"
    /\ foundTicks = 1
    /\ trace.err
    /\ ret.error.kind = "refresh"

\* C5: in an update, a fetched snapshot carries the Wait's operation tag only
\* once the control plane has applied the PUT that carried it, so a Wait that
\* returns ok returns a snapshot taken after that PUT was applied; the resource
\* as left by other writers, or as it was before the PUT, never carries the
\* key, and the key is one uuid.NewString() will not issue again.
C5_TagProvesMutationApplied ==
    op = "update" =>
        /\ trace.tag => pendingPut.applied
        /\ Succeeded => pendingPut.applied
        /\ waitOk = "true" =>
               pendingPut.applied /\ HasOperationTag(waitSnap.tags, operationTagKey)
        /\ ~pendingPut.applied => ~HasOperationTag(remote.tags, operationTagKey)
        /\ hpc # "start" => operationTagKey.id \in 1..(nextUuid - 1)

\* an update Wait returned ok after another writer's PUT, stamped with that
\* writer's own operation tag, had been fetched
C5_Witness ==
    /\ op = "update"
    /\ hpc = "done"
    /\ waitOk = "true"
    /\ others = 1
    /\ trace.otherTag
    /\ pendingPut.applied

\* C6: in an update Wait the first tick whose fetch is answered 404 is the last
\* tick; its result is a failure, not a pending state, and the Wait, unless
\* the timeout or a cancellation ended it, returns that error and ok = false.
C6_UpdateNotFoundIsFatal ==
    op = "update" =>
        /\ ~trace.afterGone
        /\ lastGet.err.set /\ lastGet.err.code = StatusNotFound =>
               /\ result.error = RefreshError(lastGet.err)
               /\ ~result.done
               /\ notfoundTick = 0
               /\ ret.returned /\ ~CutShort => ret.error = RefreshError(lastGet.err)
               /\ hpc = "done" => waitOk = "false" /\ diagErrors = 1

\* an instance update Wait failed on a 404 that followed two fetched snapshots
C6_Witness ==
    /\ op = "update"
    /\ kind = "instance"
    /\ hpc = "done"
    /\ waitOk = "false"
    /\ foundTicks = 2
    /\ lastGet.err = APIError(StatusNotFound)
    /\ ret.error = RefreshError(APIError(StatusNotFound))

\* C7: an update Wait all of whose ticks fetched a snapshot, none of which
\* carried the operation tag, is pending after every tick and returns only
\* when the timeout fires (or the caller cancels): with a timeout error that
\* wraps no other error, never with success or another failure, after any
\* number of ticks.
C7_UpdateWithoutTagTimesOut ==
    op = "update" /\ trace.allFound /\ ~trace.tag =>
        /\ ResultPending
        /\ ret.returned => ret.error \in {TimeoutError(NoLibError), ContextError}
        /\ ret.returned /\ ~ctxDone => ret.error = TimeoutError(NoLibError)
        /\ hpc = "done" /\ ret.returned => waitOk = "false" /\ diagErrors = 1

\* an update Wait timed out after three snapshots without the operation tag
C7_Witness ==
    /\ op = "update"
    /\ hpc = "done"
    /\ waitOk = "false"
    /\ foundTicks = 3
    /\ trace.allFound
    /\ ~trace.tag
    /\ ~ctxDone
    /\ ret.error.kind = "timeout"

\* C8 as stated: when the Wait of a Create or Update returns not-ok, the
\* handler has committed no resource state and commits none.
C8_NoCommitWhenWaitNotOk ==
    op \in {"create", "update"} /\ waitOk = "false" =>
        /\ commits = << >>
        /\ tfState = IF op = "create" THEN NoState
                     ELSE [present |-> TRUE, tags |-> <<UserTag>>]

\* C8 amended: when the Wait of a Create or Update returns not-ok, the handler
\* commits no resource state after it; an Update and an instance Create have
\* committed none before it either, and a network Create has committed, before
\* the Wait began, the model built from the POST's answer, which stays.
C8_NoCommitAfterWaitNotOk ==
    op \in {"create", "update"} /\ waitOk = "false" =>
        /\ hpc = "done"
        /\ commits = IF op = "create" /\ kind = "network" THEN <<"response">> ELSE << >>
        /\ op = "update" => tfState = [present |-> TRUE, tags |-> <<UserTag>>]
        /\ op = "create" /\ kind # "network" => tfState = NoState
        /\ op = "create" /\ kind = "network" => tfState = [present |-> TRUE, tags |-> <<UserTag>>]

\* a network Create whose Wait returned not-ok, with the POST's answer in the
\* local state
C8_Witness ==
    /\ op = "create"
    /\ kind = "network"
    /\ hpc = "done"
    /\ waitOk = "false"
    /\ commits = <<"response">>
    /\ tfState.present

C10_CreateMapsProvisioningStatus ==
    op = "create" =>
        /\ LastFetched(StatusProvisioning) \/ LastFetched(StatusUnknown) => ResultPending
        /\ LastFetched(StatusProvisioned) => result.done /\ result.res = lastGet.snap
        /\ trace.scen \in 1..3 => ResultPending
        /\ ret.returned /\ trace.scen = 4 /\ ~CutShort =>
               Succeeded /\ ret.res = lastGet.snap
        /\ Succeeded =>
               /\ ~ret.res.nil
               /\ ret.res.status = StatusProvisioned
               /\ LastFetched(StatusProvisioned)
        /\ waitOk = "true" => ~waitSnap.nil /\ waitSnap.status = StatusProvisioned
        /\ hpc = "done" /\ trace.scen = 4 /\ ~CutShort =>
               waitOk = "true" /\ waitSnap = lastGet.snap

\* a create Wait returned ok on the 4th tick of
\* [not-found, not-found, Provisioning, Provisioned]
C10_Witness ==
    /\ op = "create"
    /\ hpc = "done"
    /\ waitOk = "true"
    /\ trace.scen = 4
    /\ foundTicks = 2
    /\ waitSnap.status = StatusProvisioned

\* an operation marker older than defaultOperationTagMaxAge at time t
ExpiredMarker(tag, t) ==
    tag.name.pfx /\ tag.value.valid /\ t - tag.value.at > defaultOperationTagMaxAge
\* the marker the update Wait of this handler waited for and observed
ConsumedMarker(tag) ==
    op = "update" /\ waitOk = "true" /\ tag.name = operationTagKey

\* C11 as stated: the tags a handler leaves in the local state never include
\* an operation marker that has expired, nor the marker the handler's own
\* update Wait has observed.
C11_NoSpentMarkerInLocalState ==
    tfState.present =>
        \A i \in 1..Len(tfState.tags) :
            /\ ~ExpiredMarker(tfState.tags[i], now)
            /\ ~ConsumedMarker(tfState.tags[i])

\* a text that begins with the reserved prefix
StartsWithReservedPrefix(text) ==
    \E rest \in Texts(MaxKeyLen) : text = TerraformOperationTagPrefix \o rest

\* C12: for each resource schema with a "tags" attribute, validation of a
\* known tag map adds an error for every key that begins with the reserved
\* prefix, so a tag map that passes validation has no such key and none of its
\* keys equals an operation key; a null or unknown map is not validated.
C12_ReservedPrefixRejected ==
    fn = "validated" =>
        LET c == arg.config
        IN /\ c.null \/ c.unknown => val.errors = {}
           /\ ~c.null /\ ~c.unknown =>
                  /\ \A k \in c.keys : StartsWithReservedPrefix(k) => k \in val.errors
                  /\ \A k \in c.keys : ~StartsWithReservedPrefix(k) => k \notin val.errors
                  /\ val.errors = {} =>
                         \A k \in c.keys, uuid \in Texts(1) : k # OperationKey(uuid)

\* a tag map with one user key and one key that is an operation key was
\* validated and rejected for that key
C12_Witness ==
    /\ fn = "validated"
    /\ arg.kind = "instance"
    /\ arg.config.keys = {<<"a">>, OperationKey(<<"a">>)}
    /\ val.errors = {OperationKey(<<"a">>)}

\* a step that starts a fetch
FetchStarts == gpc # "refresh" /\ gpc' = "refresh"
\* a step in which the Wait returns
WaitReturns == ~ret.returned /\ ret'.returned

WaitFailed == hpc = "done" /\ ret.returned /\ ret.error.kind # "none"
\* the error diagnostic appended last
LastDiagnostic == diagnostics[Len(diagnostics)]

FormattedFrom(d) == {d.title, d.name, d.verb}
\* the handler is done after a Wait that returned
WaitDone == hpc = "done" /\ ret.returned

C19_WaitReturns == (hpc = "wait") ~> ret.returned

\* a Wait returned the timeout error while a fetch was still in flight
C19_Witness ==
    /\ hpc = "wait"
    /\ ret.returned
    /\ ret.error.kind = "timeout"
    /\ gpc = "refresh"
    /\ foundTicks > 0

\* C26: a create Wait counts the consecutive ticks that answered not-found:
\* up to NotFoundChecks of them leave the Wait pending, the next one ends it
\* with a not-found failure, before the timeout and with no fetch after it;
\* a tick that returns a snapshot sets the count back to zero, and so a Wait
\* that fetched snapshots in between fails the same way only after a run of
\* NotFoundChecks + 1 not-found ticks.
C26_CreateGivesUpAfterNotFoundChecks ==
    op = "create" =>
        /\ ~trace.err => notfoundTick = trace.run
        /\ ~trace.err /\ foundTicks > 0 /\ AnswersSnapshot(lastGet) => notfoundTick = 0
        /\ trace.run \in 1..NotFoundChecks => ResultPending
        /\ trace.run > NotFoundChecks =>
               /\ trace.run = NotFoundChecks + 1
               /\ result.error = NotFoundError
               /\ gpc \in {"final", "exit"}
        /\ ret.returned /\ ret.error = NotFoundError =>
               /\ trace.run = NotFoundChecks + 1
               /\ ~timedOut
               /\ gpc = "exit"
        /\ hpc = "done" /\ ret.returned /\ ret.error = NotFoundError =>
               waitOk = "false" /\ diagErrors = 1

\* a create Wait fetched a snapshot, then met NotFoundChecks + 1 not-found
\* answers in a row and returned the not-found failure
C26_Witness ==
    /\ op = "create"
    /\ hpc = "done"
    /\ waitOk = "false"
    /\ ret.error = NotFoundError
    /\ foundTicks >= 1
    /\ ~trace.allNF
    /\ trace.run = NotFoundChecks + 1

\* the latest tick fetched a snapshot whose provisioning status a create
\* Wait neither waits on nor accepts
LastFetchedUnexpected ==
    /\ foundTicks > 0
    /\ AnswersSnapshot(lastGet)
    /\ lastGet.snap.status \notin {StatusProvisioning, StatusUnknown, StatusProvisioned}

\* C24: in a create Wait, a tick that fetches a snapshot whose provisioning
\* status is none of Provisioning, Unknown and Provisioned (Error,
\* Deprovisioning) is the last fetch and ends the Wait with the
\* unexpected-state failure, which the Wait returns, unless the timeout or a
\* cancellation comes first, without another tick; the handler reports not-ok.
C24_CreateFailsOnUnexpectedStatus ==
    op = "create" /\ LastFetchedUnexpected =>
        /\ result.error = UnexpectedStateError
        /\ ~result.done
        /\ gpc \in {"final", "exit"}
        /\ ret.returned => ret.error.kind # "none"
        /\ ret.returned /\ ~CutShort => ret.error = UnexpectedStateError
        /\ hpc = "done" => waitOk = "false" /\ diagErrors = 1 /\ commits # <<"wait">>

\* a create Wait fetched a snapshot with status Error and returned the
\* unexpected-state failure before the timeout
C24_Witness ==
    /\ op = "create"
    /\ hpc = "done"
    /\ LastFetched(StatusError)
    /\ ret.error = UnexpectedStateError
    /\ ~timedOut
    /\ waitOk = "false"

\* C27: in an update Wait, for every provisioning status, a tick whose
\* snapshot carries operationTagKey ends the Wait with success and that
\* snapshot, and a tick whose snapshot does not carry it leaves the Wait
\* pending; the handler of a Wait that returned ok holds the tagged snapshot
\* whatever its status.
C27_UpdateDecidesOnTagOnly ==
    op = "update" /\ foundTicks > 0 =>
        \A status \in ProvisioningStatuses :
            /\ LastFetched(status) /\ CarriesKey(lastGet, operationTagKey) =>
                   /\ result.done
                   /\ result.error = NoLibError
                   /\ result.res = lastGet.snap
                   /\ gpc \in {"final", "exit"}
                   /\ ret.returned /\ ~CutShort => Succeeded /\ ret.res.status = status
                   /\ hpc = "done" /\ ~CutShort => waitOk = "true" /\ waitSnap.status = status
            /\ LastFetched(status) /\ ~CarriesKey(lastGet, operationTagKey) =>
                   /\ ResultPending
                   /\ ~Succeeded

\* an update Wait returned ok with a tagged snapshot whose status is Error
C27_Witness ==
    /\ op = "update"
    /\ hpc = "done"
    /\ waitOk = "true"
    /\ CarriesKey(lastGet, operationTagKey)
    /\ waitSnap.status = StatusError
    /\ trace.before = 0

\* the PUT of the update handler was accepted
PutAccepted == pendingPut.set \/ pendingPut.applied
\* the tags of a list that carry this name
Carrying(tags, name) == {i \in 1..Len(tags) : tags[i].name = name}

\* C22: in an update handler the accepted PUT carries the operation tag,
\* once, and its name is the key the Wait polls for; a Wait is running or has
\* run only when the PUT was accepted; a handler whose PUT failed ends with one
\* error, has started no Wait and made no fetch, and leaves local state as it
\* was.
C22_UpdateStampsThenPutsThenWaits ==
    op = "update" =>
        /\ hpc = "start" => ~PutAccepted /\ mutations = 0 /\ mpc = "idle"
        /\ PutAccepted =>
               /\ hpc # "start"
               /\ operationTagKey # NoKey
               /\ operationTagKey.pfx
               /\ Cardinality(Carrying(pendingPut.tags, operationTagKey)) = 1
        /\ hpc = "wait" \/ mpc # "idle" \/ foundTicks > 0 => PutAccepted /\ mutations = 1
        /\ hpc = "done" /\ ~PutAccepted =>
               /\ mutations = 1
               /\ mpc = "idle" /\ gpc = "idle" /\ ~ret.returned
               /\ foundTicks = 0 /\ trace = NoTrace /\ lastGet = NoGet
               /\ tfState = [present |-> TRUE, tags |-> <<UserTag>>]
               /\ commits = << >>
               /\ diagErrors = 1 /\ waitOk = "none"

\* an update whose PUT was accepted waits, a fetch in flight, for the key
\* that the PUT carries next to the user's tag
C22_Witness ==
    /\ op = "update"
    /\ hpc = "wait"
    /\ gpc = "refresh"
    /\ pendingPut.set
    /\ Len(pendingPut.tags) = 2
    /\ pendingPut.tags[2].name = operationTagKey

\* the stamped PUT was applied and a fetch of the Wait has completed since
\* (the PUT is applied while a fetch is in flight), and every fetch of the
\* Wait found the resource
AppliedAndFetched ==
    /\ op = "update"
    /\ pendingPut.applied
    /\ gpc # "refresh"
    /\ trace.allFound
    /\ foundTicks > 0

\* the Wait returns in this step, uncancelled
WaitReturnsUncancelled == ~ret.returned /\ ret'.returned /\ ~ctxDone'

\* C25: an update Wait whose stamped PUT the remote system applied, and whose
\* fetches all found the resource, one of them after the PUT was applied,
\* has seen its operation tag when it returns, other writers or not: it does
\* not time out on a mutation that was applied.
C25_OwnTagSeenDespiteOtherWriters ==
    [][AppliedAndFetched /\ WaitReturnsUncancelled => trace.tag']_vars

\* C25, what the code does: the operation tag lives in the tag set that every
\* PUT replaces.  With no other writer the fetch that follows the applied PUT
\* carries the tag; a PUT of another writer that lands before that fetch
\* removes it for good, every later fetch leaves the Wait pending and the
\* Wait ends by the timeout or a cancellation.
C25_OwnTagSeenWithoutOtherWriters ==
    /\ AppliedAndFetched /\ others = 0 => trace.tag
    /\ AppliedAndFetched /\ ~trace.tag =>
           /\ others > 0
           /\ ~Succeeded
           /\ ret.returned => CutShort

\* the server answered the i-th attempt with a 5xx status
Answered5xx(i) == ~Sent[i].transport /\ Sent[i].code >= StatusInternalServerError

\* C20: a mutation request that the server answers with a 5xx status is never
\* sent again by the HTTP client, whichever client of the repository sends it.
C20_NoResendAfter5xx ==
    arg.for = "Do" => \A i \in 1..Len(Sent) : Answered5xx(i) => i = Len(Sent)

\* C20, what the code does: the client of package nscale never sends a request
\* again after a 5xx answer, and no client makes more than RetryMax + 1 attempts.
C20_NscaleClientNoResendAfter5xx ==
    arg.for = "Do" =>
        /\ Len(Sent) <= RetryMax + 1
        /\ arg.client = "nscale" =>
               \A i \in 1..Len(Sent) : Answered5xx(i) => i = Len(Sent)

\* the tags of a pointer that are kept according to keep, in their order
KeptTags(ptr, keep(_)) == SelectSeq(ptr.tags, keep)

\* C13: RemoveOperationTags applied to its own result returns that result,
\* for every tag collection; when hours pass between the two calls, the second
\* result is what one call at the later time returns on the original tags.
C13_RemoveOperationTagsIdempotent ==
    fn = "removedAgain" =>
        /\ val.later = 0 => val.second = val.first
        /\ val.second = RemoveOperationTagsPointer(arg.tags, arg.now + val.later)
        /\ val.second.nil = arg.tags.nil
        /\ \A i \in 1..Len(val.second.tags) :
               \E j \in 1..Len(val.first.tags) : val.first.tags[j] = val.second.tags[i]

\* RemoveOperationTags was applied twice, at the same time, to two operation
\* tags of which it dropped one
C13_Witness ==
    /\ fn = "removedAgain"
    /\ val.later = 0
    /\ Len(arg.tags.tags) = 2
    /\ \A i \in 1..2 : arg.tags.tags[i].name.pfx
    /\ Len(val.second.tags) = 1

\* C14: RemoveOperationTags returns the given tags in their order without
\* those it removes; it removes every reserved-prefix tag whose timestamp is
\* more than 12 hours old and keeps every reserved-prefix tag whose timestamp
\* is less than 12 hours old and every tag without the reserved prefix.
C14_RemoveOperationTagsByAge ==
    fn = "removed" /\ ~arg.tags.nil =>
        LET in      == arg.tags.tags
            out     == val.first.tags
            age(t)  == arg.now - t.value.at
            kept(t) == \E i \in 1..Len(out) : out[i] = t
            same(t) == kept(t)
        IN /\ ~val.first.nil
           /\ out = KeptTags(arg.tags, same)
           /\ \A i \in 1..Len(in) :
                  LET t == in[i]
                  IN /\ ~t.name.pfx => kept(t)
                     /\ t.name.pfx /\ t.value.valid /\ age(t) < defaultOperationTagMaxAge => kept(t)
                     /\ t.name.pfx /\ t.value.valid /\ age(t) > defaultOperationTagMaxAge => ~kept(t)

\* RemoveOperationTags was given an operation tag 13 hours old, which it
\* removed, and one 11 hours old, which it kept
C14_Witness ==
    /\ fn = "removed"
    /\ arg.now = defaultOperationTagMaxAge + 1
    /\ arg.tags.tags = <<Tag(OperationTagName(1), Timestamp(0)), Tag(OperationTagName(2), Timestamp(2))>>
    /\ val.first.tags = <<Tag(OperationTagName(2), Timestamp(2))>>

\* C15: WriteOperationTag leaves a collection that is the given one, every tag
\* unchanged and in place, with exactly one tag appended; a nil collection
\* becomes a collection of that one tag; the key returned is the name of the
\* appended tag and carries the reserved prefix.
C15_WriteOperationTagAppendsOne ==
    fn = "written" =>
        LET in  == arg.tags.tags
            out == val.written.tags
        IN /\ ~out.nil
           /\ Len(out.tags) = Len(in) + 1
           /\ \A i \in 1..Len(in) : out.tags[i] = in[i]
           /\ out.tags[Len(out.tags)].name = val.written.key
           /\ val.written.key.pfx
           /\ arg.tags.nil => Len(out.tags) = 1

\* WriteOperationTag was given two tags, one of them an operation tag
C15_Witness ==
    /\ fn = "written"
    /\ Len(arg.tags.tags) = 2
    /\ arg.tags.tags[1].name.pfx
    /\ Len(val.written.tags.tags) = 3

\* the tags of a collection whose name lacks the reserved prefix, in order
UserTagsOf(tags) == SelectSeq(tags, LAMBDA t : ~t.name.pfx)

\* C30: RemoveOperationTags removes every reserved-prefix tag whose value is
\* not a timestamp, at every time of the call, and its result holds the tags
\* without the reserved prefix that it was given, all of them and in the order
\* given.
C30_RemoveOperationTagsDropsUnparsed ==
    fn = "removed" /\ ~arg.tags.nil =>
        LET in  == arg.tags.tags
            out == val.first.tags
        IN /\ \A i \in 1..Len(in) :
                  in[i].name.pfx /\ ~in[i].value.valid =>
                      \A j \in 1..Len(out) : out[j] # in[i]
           /\ \A j \in 1..Len(out) : out[j].name.pfx => out[j].value.valid
           /\ UserTagsOf(out) = UserTagsOf(in)

\* RemoveOperationTags was given a marker whose value is not a timestamp, as
\* the legacy compute cluster update writes it, and a user tag after it: it
\* removed the marker and kept the user tag
C30_Witness ==
    /\ fn = "removed"
    /\ arg.tags.tags = <<Tag(OperationTagName(1), [valid |-> FALSE, at |-> 0]),
                         Tag(UserTagName(1), Timestamp(2))>>
    /\ val.first.tags = <<Tag(UserTagName(1), Timestamp(2))>>

\* what the fetch function of the resource type made of the server's answer
Fetched == GetFunc(arg.kind, arg.answer)

\* C28: ResourceReader.Read, when the fetch reports not-found, removes the
\* resource from local state, adds one warning and no error and returns
\* not-ok; on any other fetch error it adds one error and no warning, leaves
\* local state as it was and returns not-ok; on success it returns the
\* snapshot, adds no diagnostic and leaves local state as it was.
C28_ReadOutcomes ==
    fn = "read" =>
        LET r == val.read
        IN /\ IsNotFound(Fetched.err) =>
                  /\ ~r.ok /\ r.res.nil
                  /\ r.state = NoState
                  /\ Len(r.warnings) = 1 /\ r.errors = << >>
           /\ Fetched.err.set /\ ~IsNotFound(Fetched.err) =>
                  /\ ~r.ok /\ r.res.nil
                  /\ r.state = arg.state
                  /\ Len(r.errors) = 1 /\ r.warnings = << >>
                  /\ r.errors[1].cause = RefreshError(Fetched.err)
           /\ ~Fetched.err.set =>
                  /\ r.ok
                  /\ r.res = arg.answer.snap
                  /\ r.state = arg.state
                  /\ r.errors = << >> /\ r.warnings = << >>

\* Read of an instance that the server answered with 404: removed from local
\* state with a warning
C28_Witness ==
    /\ fn = "read"
    /\ arg.kind = "instance"
    /\ arg.answer = StatusAnswer(StatusNotFound)
    /\ arg.state.present
    /\ val.read.state = NoState
    /\ Len(val.read.warnings) = 1
    /\ ~val.read.ok

\* C21: the fetch function of every resource type turns an HTTP 404 into the
\* not-found signal, an *APIError with status 404, so that the 404 leaves a
\* create Wait pending, ends a delete Wait with success and makes Read remove
\* the resource from local state.
C21_NotFoundRecognisedEverywhere ==
    fn = "read" /\ arg.answer = StatusAnswer(StatusNotFound) =>
        /\ IsNotFound(Fetched.err)
        /\ CreateRefresh(Fetched) = Refreshed(NilSnapshot, StatusUnknown, NoError)
        /\ DeleteRefresh(Fetched).state = DeleteStateDeleted
        /\ val.read.state = NoState

\* C21, what the code does: the fetch functions that read the response with
\* ReadJSONResponsePointer (getInstance, getFileStorage) turn a 404 into the
\* not-found signal, with the three effects; getNetwork turns it into a
\* StatusCodeError, which the create and the delete Refresh return as a fatal
\* error and for which Read adds an error and keeps the resource.
C21_NotFoundRecognisedPerFetcher ==
    fn = "read" /\ arg.answer = StatusAnswer(StatusNotFound) =>
        /\ arg.kind = "instance" =>
               /\ IsNotFound(Fetched.err)
               /\ CreateRefresh(Fetched) = Refreshed(NilSnapshot, StatusUnknown, NoError)
               /\ DeleteRefresh(Fetched).state = DeleteStateDeleted
               /\ val.read.state = NoState
        /\ arg.kind = "network" =>
               /\ ~IsNotFound(Fetched.err)
               /\ CreateRefresh(Fetched).err = Fetched.err
               /\ DeleteRefresh(Fetched).state = DeleteStateErrored
               /\ val.read.state = arg.state /\ Len(val.read.errors) = 1

\* C29: for every security group rule, from_port is sent as the API rule's
\* Port and to_port as its PortMax, and a rule with both ports set comes back
\* from the API rule with the same from_port and to_port.
C29_RulePortsRoundTrip ==
    fn = "converted" =>
        LET rule == arg.rule
        IN /\ ~rule.from_port.null => val.sent.Port = IntPointer(rule.from_port.value)
           /\ ~rule.to_port.null => val.sent.PortMax = IntPointer(rule.to_port.value)
           /\ ~rule.from_port.null /\ ~rule.to_port.null =>
                  /\ val.back.from_port = rule.from_port
                  /\ val.back.to_port = rule.to_port

\* C29, what the code does: PortMax is never sent; Port is to_port when
\* to_port is set and from_port otherwise, so only a rule without to_port
\* comes back as it was, and direction, protocol and prefix always do.
C29_RulePortsAsSent ==
    fn = "converted" =>
        LET rule == arg.rule
        IN /\ val.sent.PortMax = NilInt
           /\ val.back.to_port = Int32Null
           /\ val.back.from_port = IF rule.to_port.null THEN rule.from_port ELSE rule.to_port
           /\ rule.to_port.null => val.back = rule
           /\ val.back.type = rule.type
           /\ val.back.protocol = rule.protocol
           /\ val.back.cidr_block = rule.cidr_block

\* the latest tick of a legacy wait was a pending one: in the update wait
\* the cluster is listed without the operation tag, in the delete wait the
\* cluster is still listed
LegacyPendingTick ==
    /\ arg.for = "LegacyWait"
    /\ val.of = "LegacyWait"
    /\ val.answer.code = StatusOK
    /\ ~val.answer.snap.nil
    /\ arg.op = "update" => val.refreshed.state = "updating"

\* C23: in the legacy waits a pending tick never ends the wait with an error,
\* however many pending ticks came before it.
C23_LegacyPendingNeverFails ==
    LegacyPendingTick =>
        /\ val.result.error = NoLibError
        /\ ~val.result.done
        /\ fn = "polling"

\* C23, what the code does: a pending tick returns a nil result, which the
\* loop counts as not found; up to NotFoundChecks consecutive pending ticks
\* leave the wait pending, and the next one ends it with a not-found failure.
C23_LegacyPendingCountsAsNotFound ==
    LegacyPendingTick =>
        /\ val.refreshed.res.nil
        /\ val.notfoundTick \in 1..(NotFoundChecks + 1)
        /\ val.notfoundTick <= NotFoundChecks =>
               val.result.error = NoLibError /\ fn = "polling"
        /\ val.notfoundTick = NotFoundChecks + 1 =>
               val.result.error = NotFoundError /\ fn = "polled"

====
